---- MODULE Spec2Model ----
(***************************************************************************)
(* Bilingual-Study-Flow: the AI request orchestrator of                    *)
(* services/geminiService.ts (processMediaWithGemini, waitForFileActive,   *)
(* runWithCancellation, fileToGenerativePart, getTTSAudio) and the exports *)
(* of the Dashboard component (handleDownloadDubbedAudio, exportSRT,       *)
(* handleDownloadSource).                                                  *)
(*                                                                         *)
(* The browser runs one task at a time.  An action of this module is one   *)
(* task of the event loop together with the microtasks it drains: the      *)
(* code from one suspension point (an await on a pending promise) up to    *)
(* the next one.                                                           *)
(***************************************************************************)
EXTENDS Integers, Sequences, FiniteSets, TLC

\* ------------------------------------------------------------------------
\* Bounds of the model
\* ------------------------------------------------------------------------
MaxLines == 2
MaxRuns == 2
MaxExports == 2

\* ------------------------------------------------------------------------
\* Program constants
\* ------------------------------------------------------------------------
maxAttempts == 120
sampleRate == 24000
INLINE_SIZE_LIMIT == 20 * 1024 * 1024

\* ------------------------------------------------------------------------
\* Error messages.  A message is its text together with the set of marker
\* substrings that occur in the text: String.prototype.includes(marker) is
\* membership in that set.  None of the literal messages of the code holds
\* one of the markers.
\* ------------------------------------------------------------------------
Markers == {"429", "503", "SAFETY", "400", "context", "403"}

Msg(t) == [text |-> t, has |-> {}]

CancelText == "Processing cancelled by user."
CancelError == Msg(CancelText)
MissingKeyError == Msg("API Key is missing.")
ReadResultError == Msg("Failed to read file")
ReadFailError == Msg("Error reading file")
UploadFailedError == Msg("Upload failed.")
ProcessingFailedError == Msg("File processing failed on Gemini server.")
TimeoutError == Msg("File upload timed out.")
NoResponseError == Msg("No response from AI")
MapTypeError == Msg("Cannot read properties of undefined (reading 'map')")
QuotaError == Msg("API Quota Exceeded. Please try again later.")
OverloadedError == Msg("Server overloaded. Try again shortly.")
SafetyError == Msg("Content blocked by safety filters.")
ContextError == Msg("File too long (Context Exceeded).")
InvalidKeyError == Msg("Invalid API Key.")
NoError == Msg("")

\* Errors raised outside this code: a rejection of the remote service or of
\* the network, or the SyntaxError of JSON.parse.  Their text is not known to
\* the code; only the markers in it matter.
RemoteErrors == {[text |-> "remote", has |-> h] : h \in SUBSET Markers}

includes(m, marker) == marker \in m.has

\* ------------------------------------------------------------------------
\* Timestamps.  A timestamp is the text the service returned, kept as a
\* sequence of tokens: a natural number for a group of digits, Colon and
\* Comma for the two separators ("00:01:05" is <<0, Colon, 1, Colon, 5>>).
\* ------------------------------------------------------------------------
Colon == 0 - 1
Comma == 0 - 2
NaN == 0 - 3

Stamp(h, m, s) == <<h, Colon, m, Colon, s>>
Stamp2(m, s) == <<m, Colon, s>>
StampMs(h, m, s, ms) == <<h, Colon, m, Colon, s, Comma, ms>>

\* ------------------------------------------------------------------------
\* The compact response of the generation call and its expansion
\* ------------------------------------------------------------------------
\* An array of the parsed response: present with its items, or undefined.
Undefined == [present |-> FALSE, items |-> <<>>]
Arr(q) == [present |-> TRUE, items |-> q]

RawSub1 == [i |-> 1, s |-> Stamp(0, 0, 1), e |-> Stamp(0, 0, 4), en |-> "en1", vi |-> "vi1"]
RawSub2 == [i |-> 2, s |-> Stamp(0, 1, 5), e |-> Stamp(0, 1, 9), en |-> "en2", vi |-> "vi2"]
RawNote1 == [ts |-> Stamp(0, 0, 1), ti |-> "title1", co |-> "content1"]
\* The value of a field the parsed object does not have.
undefinedField == "undefined"

RawCard1 == [id |-> "c1", t |-> "term1", d |-> "def1", c |-> "ctx1"]
RawCard2 == [id |-> "c2", t |-> "term2", d |-> "def2", c |-> "ctx2"]
RawCardNoId == [RawCard2 EXCEPT !.id = undefinedField]
RawCardEmptyId == [RawCard2 EXCEPT !.id = ""]

RawSubsChoices == {Undefined, Arr(<<>>), Arr(<<RawSub1, RawSub2>>)}
RawNotesChoices == {Undefined, Arr(<<>>), Arr(<<RawNote1>>)}
RawCardsChoices ==
    {Undefined, Arr(<<>>), Arr(<<RawCard1, RawCard2>>), Arr(<<RawCard1, RawCardNoId>>),
     Arr(<<RawCard1, RawCardEmptyId>>)}

\* What JSON.parse may yield for a response text that parses.
RawResponses == [subs : RawSubsChoices, nts : RawNotesChoices, cards : RawCardsChoices]
NoResponse == [subs |-> Undefined, nts |-> Undefined, cards |-> Undefined]

\* The values Math.random().toString() may give.
RandomIds == {"0.25", "0.75"}

mapSub(s) ==
    [id |-> s.i, startTime |-> s.s, endTime |-> s.e,
     textOriginal |-> s.en, textVietnamese |-> s.vi]

mapNote(n) == [timestamp |-> n.ts, title |-> n.ti, content |-> n.co]

\* The values the || operator takes for false: here a missing field and the
\* empty string.
falsy(v) == v \in {undefinedField, ""}

mapCardSwapped(c, rnd) ==
    [id |-> IF falsy(c.id) THEN rnd ELSE c.id,
     term |-> c.d, definition |-> c.t, context |-> c.c]

mapCard(c, rnd) ==
    [id |-> IF falsy(c.id) THEN rnd ELSE c.id,
     term |-> c.t, definition |-> c.d, context |-> c.c]

\* rawData.X.map(...) throws a TypeError when rawData.X is undefined.
mapThrowsLenient(raw) == ~raw.subs.present

mapThrows(raw) == ~raw.subs.present \/ ~raw.nts.present \/ ~raw.cards.present

expand(raw, rnd) ==
    [subtitles |-> [k \in 1..Len(raw.subs.items) |-> mapSub(raw.subs.items[k])],
     notes |-> [k \in 1..Len(raw.nts.items) |-> mapNote(raw.nts.items[k])],
     flashcards |-> [k \in 1..Len(raw.cards.items) |-> mapCard(raw.cards.items[k], rnd)]]

\* ------------------------------------------------------------------------
\* State of one invocation of processMediaWithGemini
\* ------------------------------------------------------------------------
VARIABLES
    fileSize,          \* file.size
    apiKey,            \* whether process.env.API_KEY is set
    hasSignal,         \* whether an AbortSignal was passed
    hasCallback,       \* whether onStatusUpdate was passed
    aborted,           \* signal.aborted
    pc,                \* where the invocation is suspended
    i,                 \* loop variable of waitForFileActive
    timer,             \* the setTimeout of the poll wait is armed
    listeners,         \* abort listeners registered on the signal
    reader,            \* FileReader.readyState
    pending,           \* remote operations issued and not yet settled
    fileReads,         \* calls of readAsDataURL
    uploadRequests,    \* calls of ai.files.upload
    statusRequests,    \* calls of ai.files.get
    generateRequests,  \* calls of ai.models.generateContent
    processingPolls,   \* status requests answered neither ACTIVE nor FAILED
    statusLog,         \* percentages passed to onStatusUpdate
    outcome,           \* "pending", "resolved" or "rejected"
    caught,            \* the error the catch block received
    error,             \* the error the invocation rejected with
    response,          \* the parsed generation response the result was built from
    result,            \* the ProcessedData returned: <<>> or <<data>>
    abortedAtCall,     \* the signal had fired when the function was called
    abortPc,           \* where the invocation was when the signal fired
    mediaPart,         \* the media part the generation request carried
    uploadResult,      \* what ai.files.upload returned: "none", "named", "unnamed"
    fileState          \* the state the last status request reported, or "none"

mediaVars ==
    <<fileSize, apiKey, hasSignal, hasCallback, aborted, pc, i, timer, listeners,
      reader, pending, fileReads, uploadRequests, statusRequests, generateRequests,
      processingPolls, statusLog, outcome, caught, error, response, result,
      abortedAtCall, abortPc, mediaPart, uploadResult, fileState>>

FileSizes == {0, INLINE_SIZE_LIMIT - 1, INLINE_SIZE_LIMIT, INLINE_SIZE_LIMIT + 1}

\* The part of the state the code of one invocation writes, as a record, so
\* that the synchronous code between two suspension points composes.
Cur ==
    [pc |-> pc, i |-> i, timer |-> timer, listeners |-> listeners, reader |-> reader,
     pending |-> pending, fileReads |-> fileReads, uploadRequests |-> uploadRequests,
     statusRequests |-> statusRequests, generateRequests |-> generateRequests,
     processingPolls |-> processingPolls, statusLog |-> statusLog,
     outcome |-> outcome, caught |-> caught, error |-> error,
     response |-> response, result |-> result, mediaPart |-> mediaPart,
     uploadResult |-> uploadResult, fileState |-> fileState]

Commit(c) ==
    /\ pc' = c.pc
    /\ i' = c.i
    /\ timer' = c.timer
    /\ listeners' = c.listeners
    /\ reader' = c.reader
    /\ pending' = c.pending
    /\ fileReads' = c.fileReads
    /\ uploadRequests' = c.uploadRequests
    /\ statusRequests' = c.statusRequests
    /\ generateRequests' = c.generateRequests
    /\ processingPolls' = c.processingPolls
    /\ statusLog' = c.statusLog
    /\ outcome' = c.outcome
    /\ caught' = c.caught
    /\ error' = c.error
    /\ response' = c.response
    /\ result' = c.result
    /\ mediaPart' = c.mediaPart
    /\ uploadResult' = c.uploadResult
    /\ fileState' = c.fileState

\* ------------------------------------------------------------------------
\* State of a mounted Dashboard (its dub export)
\* ------------------------------------------------------------------------
VARIABLES
    subtitles,           \* data.subtitles
    isGeneratingDub,     \* the React state
    renderedGenerating,  \* isGeneratingDub as the committed render closed over it
    dubProgress,         \* the React state dubProgress
    showExportMenu,      \* the export menu is open
    showMergeModal,      \* the merge-guide modal is open
    runs,                \* the runs of handleDownloadDubbedAudio, by number
    started,             \* how many runs passed the guard
    alerts,              \* calls of alert()
    downloads            \* the dubbed audio files offered as downloads, in order

dubVars ==
    <<subtitles, isGeneratingDub, renderedGenerating, dubProgress, showExportMenu,
      showMergeModal, runs, started, alerts, downloads>>

\* ------------------------------------------------------------------------
\* What the export actions of the Dashboard leave behind
\* ------------------------------------------------------------------------
VARIABLES
    srtExports,        \* the subtitle files offered as downloads, in order
    sourceDownloads,   \* how often the source file was offered as a download
    objectUrls,        \* object URLs an export action created and nothing revoked
    anchors            \* anchor elements an export action left in document.body

exportVars == <<srtExports, sourceDownloads, objectUrls, anchors>>

vars == <<mediaVars, dubVars, exportVars>>

\* ------------------------------------------------------------------------
\* processMediaWithGemini and its helpers, as transformers of Cur
\* ------------------------------------------------------------------------

SurfaceAnyBadRequest(err) ==
    IF err.text = CancelText THEN err
    ELSE IF includes(err, "429") THEN QuotaError
    ELSE IF includes(err, "503") THEN OverloadedError
    ELSE IF includes(err, "SAFETY") THEN SafetyError
    ELSE IF includes(err, "400") \/ includes(err, "context") THEN ContextError
    ELSE IF includes(err, "403") THEN InvalidKeyError
    ELSE err

\* The catch block of processMediaWithGemini.
Surface(err) ==
    IF err.text = CancelText THEN err
    ELSE IF includes(err, "429") THEN QuotaError
    ELSE IF includes(err, "503") THEN OverloadedError
    ELSE IF includes(err, "SAFETY") THEN SafetyError
    ELSE IF includes(err, "400") /\ includes(err, "context") THEN ContextError
    ELSE IF includes(err, "403") THEN InvalidKeyError
    ELSE err

ThrowRetriesOverloaded(c, err) ==
    IF includes(err, "503") /\ c.generateRequests = 1
    THEN [c EXCEPT !.pc = "generating", !.generateRequests = @ + 1,
                   !.pending = @ \cup {"generate"}]
    ELSE [c EXCEPT !.pc = "settled", !.outcome = "rejected",
                   !.caught = err, !.error = Surface(err)]

\* An error thrown inside the try block: the invocation rejects with what
\* the catch block rethrows.
Throw(c, err) ==
    [c EXCEPT !.pc = "settled", !.outcome = "rejected",
              !.caught = err, !.error = Surface(err)]

Return(c, data) ==
    [c EXCEPT !.pc = "settled", !.outcome = "resolved", !.result = <<data>>]

onStatusUpdate(c, percent) ==
    IF hasCallback THEN [c EXCEPT !.statusLog = Append(@, percent)] ELSE c

\* await runWithCancellation(promise, signal), the promise being already
\* created: the caller suspends at `at`, or the await throws at once.
runWithCancellation(c, at) ==
    IF ~hasSignal THEN [c EXCEPT !.pc = at]
    ELSE IF aborted THEN Throw(c, CancelError)
    ELSE [c EXCEPT !.pc = at, !.listeners = @ \cup {"onAbort"}]

filesUpload(c) ==
    [c EXCEPT !.uploadRequests = @ + 1, !.pending = @ \cup {"upload"}]

filesGet(c) ==
    [c EXCEPT !.statusRequests = @ + 1, !.pending = @ \cup {"get"}]

\* ai.models.generateContent({contents: {parts: [mediaPart, ...]}, ...})
generateContent(c, part) ==
    [c EXCEPT !.generateRequests = @ + 1, !.pending = @ \cup {"generate"},
              !.mediaPart = part]

fileToGenerativePart(c) ==
    [c EXCEPT !.reader = "loading", !.fileReads = @ + 1, !.pc = "reading",
              !.listeners = IF hasSignal THEN @ \cup {"readerAbort"} ELSE @]

\* STEP 2 of processMediaWithGemini, up to the await of the generation call.
generate(c, part) ==
    runWithCancellation(generateContent(onStatusUpdate(c, 80), part), "generating")

LoopContinuesOffByOne(k) == k <= maxAttempts

\* for (let i = 0; i < maxAttempts; i++)
LoopContinues(k) == k < maxAttempts

\* The head of the loop of waitForFileActive with i = c.i, up to the await of
\* the status request.
waitLoop(c) ==
    IF ~LoopContinues(c.i) THEN Throw(c, TimeoutError)
    ELSE IF hasSignal /\ aborted THEN Throw(c, CancelError)
    ELSE runWithCancellation(filesGet(c), "polling")

progressUnscaled(k) == 40 + k

\* const progress = 40 + Math.floor((i / maxAttempts) * 35)
progress(k) == 40 + ((k * 35) \div maxAttempts)

\* The poll reported neither ACTIVE nor FAILED: report progress, arm the timer.
pollWait(c) ==
    [onStatusUpdate(c, progress(c.i))
        EXCEPT !.processingPolls = @ + 1, !.timer = TRUE, !.pc = "waiting",
               !.listeners = IF hasSignal THEN @ \cup {"abortHandler"} ELSE @]

isInlineUpToLimit(size) == size <= INLINE_SIZE_LIMIT

\* if (file.size < INLINE_SIZE_LIMIT)
isInline(size) == size < INLINE_SIZE_LIMIT

EntryAbortCheckOmitted == FALSE

\* if (signal?.aborted) throw ... at the top of processMediaWithGemini
EntryAbortCheck == hasSignal /\ aborted

\* processMediaWithGemini from its call up to its first await.
processMediaWithGemini(c) ==
    IF EntryAbortCheck THEN Throw(c, CancelError)
    ELSE IF ~apiKey THEN Throw(c, MissingKeyError)
    ELSE IF isInline(fileSize)
         THEN fileToGenerativePart(onStatusUpdate(c, 30))
         ELSE runWithCancellation(filesUpload(onStatusUpdate(c, 10)), "uploading")

onFileStateFailedIsReady(c, state) ==
    CASE state \in {"ACTIVE", "FAILED"} -> generate(c, "fileData")
      [] OTHER -> pollWait(c)

\* waitForFileActive after a status request answered, and what follows its
\* return in processMediaWithGemini.
onFileState(c, state) ==
    CASE state = "ACTIVE" -> generate(c, "fileData")
      [] state = "FAILED" -> Throw(c, ProcessingFailedError)
      [] OTHER -> pollWait(c)

\* The abort listener of fileToGenerativePart: reader.abort() fires loadend
\* synchronously with reader.result null, so onloadend rejects the promise
\* before the listener's own reject runs.
readerAbortListener(c) ==
    IF c.reader = "loading"
    THEN Throw([c EXCEPT !.reader = "done"], ReadResultError)
    ELSE c

\* onAbort of runWithCancellation.
onAbort(c) == Throw(c, CancelError)

abortHandlerNoClear(c) == Throw(c, CancelError)

\* abortHandler of the poll wait.
abortHandler(c) == Throw([c EXCEPT !.timer = FALSE], CancelError)

\* The abort event, dispatched to the listeners in registration order.
dispatchAbort(c) ==
    LET c1 == IF "readerAbort" \in c.listeners THEN readerAbortListener(c) ELSE c
        c2 == IF "onAbort" \in c1.listeners THEN onAbort(c1) ELSE c1
    IN  IF "abortHandler" \in c2.listeners THEN abortHandler(c2) ELSE c2

Settled(c, op) ==
    [c EXCEPT !.pending = @ \ {op}, !.listeners = @ \ {"onAbort"}]

\* ------------------------------------------------------------------------
\* Actions of an invocation
\* ------------------------------------------------------------------------
InputsUnchanged ==
    UNCHANGED <<fileSize, apiKey, hasSignal, hasCallback, dubVars, exportVars>>

CallInit ==
    /\ aborted = FALSE
    /\ pc = "idle"
    /\ i = 0
    /\ timer = FALSE
    /\ listeners = {}
    /\ reader = "empty"
    /\ pending = {}
    /\ fileReads = 0
    /\ uploadRequests = 0
    /\ statusRequests = 0
    /\ generateRequests = 0
    /\ processingPolls = 0
    /\ statusLog = <<>>
    /\ outcome = "pending"
    /\ caught = NoError
    /\ error = NoError
    /\ response = NoResponse
    /\ result = <<>>
    /\ abortedAtCall = FALSE
    /\ abortPc = "none"
    /\ mediaPart = "none"
    /\ uploadResult = "none"
    /\ fileState = "none"

\* The caller invokes processMediaWithGemini.
Call ==
    /\ pc = "idle"
    /\ abortedAtCall' = (hasSignal /\ aborted)
    /\ Commit(processMediaWithGemini(Cur))
    /\ UNCHANGED <<aborted, abortPc>>
    /\ InputsUnchanged

\* The caller fires the signal (AbortController.abort()), as a task of its own.
Abort ==
    /\ hasSignal
    /\ ~aborted
    /\ aborted' = TRUE
    /\ abortPc' = pc
    /\ Commit(dispatchAbort(Cur))
    /\ UNCHANGED abortedAtCall
    /\ InputsUnchanged

\* The FileReader finishes: loadend with a result, or error then loadend.
FileReadSettles ==
    /\ pc = "reading"
    /\ reader = "loading"
    /\ \E ok \in BOOLEAN :
          LET c0 == [Cur EXCEPT !.reader = "done"]
          IN  Commit(IF ok THEN generate(c0, "inlineData") ELSE Throw(c0, ReadFailError))
    /\ UNCHANGED <<aborted, abortedAtCall, abortPc>>
    /\ InputsUnchanged

\* ai.files.upload settles.
UploadSettles ==
    /\ pc = "uploading"
    /\ LET c0 == Settled(Cur, "upload")
       IN  \/ \E named \in BOOLEAN :
                Commit(IF named
                       THEN waitLoop([onStatusUpdate([c0 EXCEPT !.uploadResult = "named"], 40)
                                         EXCEPT !.i = 0])
                       ELSE Throw([c0 EXCEPT !.uploadResult = "unnamed"], UploadFailedError))
           \/ \E m \in RemoteErrors : Commit(Throw(c0, m))
    /\ UNCHANGED <<aborted, abortedAtCall, abortPc>>
    /\ InputsUnchanged

\* ai.files.get settles.
StatusSettles ==
    /\ pc = "polling"
    /\ LET c0 == Settled(Cur, "get")
       IN  \/ \E state \in {"ACTIVE", "FAILED", "PROCESSING"} :
                Commit(onFileState([c0 EXCEPT !.fileState = state], state))
           \/ \E m \in RemoteErrors : Commit(Throw(c0, m))
    /\ UNCHANGED <<aborted, abortedAtCall, abortPc>>
    /\ InputsUnchanged

\* The 5 s timer of the poll wait fires.
TimerFires ==
    /\ timer
    /\ LET c0 == [Cur EXCEPT !.timer = FALSE, !.listeners = @ \ {"abortHandler"}]
       IN  Commit(IF pc = "waiting" THEN waitLoop([c0 EXCEPT !.i = @ + 1]) ELSE c0)
    /\ UNCHANGED <<aborted, abortedAtCall, abortPc>>
    /\ InputsUnchanged

\* ai.models.generateContent settles and the response is parsed and mapped.
GenerateSettles ==
    /\ pc = "generating"
    /\ LET c0 == Settled(Cur, "generate")
       IN  \/ \E m \in RemoteErrors : Commit(Throw(c0, m))
           \/ Commit(Throw(c0, NoResponseError))
           \/ \E raw \in RawResponses, rnd \in RandomIds :
                LET c1 == [c0 EXCEPT !.response = raw]
                IN  Commit(IF mapThrows(raw)
                           THEN Throw(c1, MapTypeError)
                           ELSE Return(c1, expand(raw, rnd)))
    /\ UNCHANGED <<aborted, abortedAtCall, abortPc>>
    /\ InputsUnchanged

lateSettledResumes(c, op) ==
    IF op = "upload"
    THEN filesGet(onStatusUpdate(Settled(c, op), 40))
    ELSE Settled(c, op)

\* The callbacks runWithCancellation gave to promise.then, run after the
\* wrapper has already rejected: the listener is removed, and resolve or
\* reject of the settled wrapper does nothing.
lateSettled(c, op) == Settled(c, op)

\* A remote operation settles after the invocation has already rejected.
LateSettle ==
    /\ pc = "settled"
    /\ \E op \in pending : Commit(lateSettled(Cur, op))
    /\ UNCHANGED <<aborted, abortedAtCall, abortPc>>
    /\ InputsUnchanged

\* ------------------------------------------------------------------------
\* Dashboard: parseTime, getTTSAudio and handleDownloadDubbedAudio
\* ------------------------------------------------------------------------
RECURSIVE split(_)
\* timeStr.split(':')
split(ts) ==
    IF \A k \in 1..Len(ts) : ts[k] # Colon
    THEN <<ts>>
    ELSE LET k == CHOOSE j \in 1..Len(ts) :
                      ts[j] = Colon /\ \A h \in 1..(j - 1) : ts[h] # Colon
         IN  <<SubSeq(ts, 1, k - 1)>> \o split(SubSeq(ts, k + 1, Len(ts)))

\* Number(field): 0 for the empty string, the value of a group of digits,
\* NaN for anything else (such as "01,500").
Number(field) ==
    IF field = <<>> THEN 0
    ELSE IF Len(field) = 1 /\ field[1] >= 0 THEN field[1]
    ELSE NaN

plus(a, b) == IF a = NaN \/ b = NaN THEN NaN ELSE a + b
times(a, b) == IF a = NaN \/ b = NaN THEN NaN ELSE a * b

parseTime(timeStr) ==
    LET fields == split(timeStr)
        parts == [k \in 1..Len(fields) |-> Number(fields[k])]
    IN  IF Len(parts) = 3
        THEN plus(plus(times(parts[1], 3600), times(parts[2], 60)), parts[3])
        ELSE IF Len(parts) = 2 THEN plus(times(parts[1], 60), parts[2])
        ELSE 0

\* Math.round((processedCount / subtitles.length) * 100)
roundPercent(count, n) == (200 * count + n) \div (2 * n)

\* A line stamped HH:MM:SS and one stamped MM:SS.
Sub1 == mapSub(RawSub1)
Sub2 ==
    [id |-> 2, startTime |-> Stamp2(2, 0), endTime |-> Stamp2(2, 3),
     textOriginal |-> "en2", textVietnamese |-> "vi2"]

SubtitleChoices == {Sub1, Sub2}

RECURSIVE SeqsUpTo(_, _)
SeqsUpTo(S, n) ==
    IF n = 0 THEN {<<>>}
    ELSE LET shorter == SeqsUpTo(S, n - 1)
         IN  shorter \cup {Append(q, x) : q \in shorter, x \in S}

\* The subtitle lists a Dashboard may be mounted with; the order of the
\* start times is not enforced.
SubtitleLists == SeqsUpTo(SubtitleChoices, MaxLines)

NotScheduled == 0 - 4

\* new OfflineAudioContext(numberOfChannels, length, sampleRate)
OfflineAudioContext(channels, length, rate) ==
    [numberOfChannels |-> channels, length |-> length, sampleRate |-> rate]

NoContext == OfflineAudioContext(0, 0, 0)

\* The constructor throws for a length that is not at least one frame (NaN
\* converts to 0).
offlineCtxThrows(length) == length = NaN \/ length < 1

\* subtitles.length > 0 ? parseTime(subtitles[subtitles.length - 1].endTime) + 10 : 60
totalDuration(subs) ==
    IF Len(subs) > 0 THEN plus(parseTime(subs[Len(subs)].endTime), 10) ELSE 60

reportsProgressOnSuccess(ok) == ok

\* processedCount++ and setDubProgress(...) follow the try/catch of the line.
reportsProgress(ok) == TRUE

N == Len(subtitles)

IdleRun ==
    [pc |-> "unused",        \* "unused", "tts", "rendering" or "ended"
     inflight |-> {},        \* lines whose request is issued and not settled
     issued |-> <<>>,        \* lines in the order their requests were issued
     handled |-> {},         \* lines the loop is through with
     succeeded |-> {},       \* lines whose request returned audio
     sched |-> <<>>,         \* per line, the offset its source was started at
     processedCount |-> 0,
     reported |-> <<>>,      \* the values passed to setDubProgress in the loop
     renderStarted |-> FALSE,
     ending |-> "none",      \* "none", "download" or "alert"
     offlineCtx |-> NoContext]

NewRun ==
    [IdleRun EXCEPT
        !.sched = [k \in 1..N |-> NotScheduled],
        !.offlineCtx = OfflineAudioContext(1, times(sampleRate, totalDuration(subtitles)),
                                           sampleRate)]

\* if (!apiKey) throw new Error("API Key missing") in getTTSAudio
getTTSAudioThrowsEarly == ~apiKey

sourceStartOffsetOfEnd(sub) == parseTime(sub.endTime)

\* const startTime = parseTime(sub.startTime); ... source.start(startTime)
sourceStartOffset(sub) == parseTime(sub.startTime)

\* source.start(when) throws for a non-finite or negative `when`.
startThrows(when) == when < 0

issueFromUnawaited(k, n) == k..n

\* for (const sub of subtitles) { ... await getTTSAudio(...) ... }: the lines
\* whose request is issued when the loop reaches line k and suspends.
issueFrom(k, n) == {k}

RECURSIVE inOrder(_)
inOrder(S) ==
    IF S = {} THEN <<>>
    ELSE LET m == CHOOSE x \in S : \A y \in S : x <= y
         IN  <<m>> \o inOrder(S \ {m})

\* One line handled: the buffer scheduled or the failure logged, then
\* processedCount++ and setDubProgress.
lineDone(run, k, ok) ==
    LET when == sourceStartOffset(subtitles[k])
        scheduled == ok /\ ~startThrows(when)
    IN  [run EXCEPT !.inflight = @ \ {k},
                    !.handled = @ \cup {k},
                    !.succeeded = IF ok THEN @ \cup {k} ELSE @,
                    !.sched[k] = IF scheduled THEN when ELSE NotScheduled,
                    !.processedCount = @ + 1,
                    !.reported = IF reportsProgress(ok)
                                 THEN Append(@, roundPercent(run.processedCount + 1, N))
                                 ELSE @]

RECURSIVE loopFrom(_, _)
\* The loop of handleDownloadDubbedAudio arriving at line k, up to the next
\* await on a pending promise (a request, or startRendering after the loop).
loopFrom(run, k) ==
    IF k > N THEN [run EXCEPT !.pc = "rendering", !.renderStarted = TRUE]
    ELSE IF getTTSAudioThrowsEarly THEN loopFrom(lineDone(run, k, FALSE), k + 1)
    ELSE [run EXCEPT !.pc = "tts",
                     !.inflight = @ \cup issueFrom(k, N),
                     !.issued = @ \o inOrder(issueFrom(k, N))]

lastReported(run, before) ==
    IF run.reported = <<>> THEN before ELSE run.reported[Len(run.reported)]

\* The encoder of the rendered buffer: a mono uncompressed PCM container
\* holding the rendered audio (here, what was scheduled where).
audioBufferToWav(rendered) ==
    [container |-> "wav", channels |-> 1, audio |-> rendered]

\* URL.createObjectURL(blob): one more object URL is held by the document.
createObjectURL(held) == held + 1

\* document.body.appendChild(a) and document.body.removeChild(a)
appendChild(inBody) == inBody + 1
removeChild(inBody) == inBody - 1

flagAfterRunKeptOnFailure(failed) == failed

\* finally { setIsGeneratingDub(false); setDubProgress(0); }: the flag after
\* the try block was left, by its end or by the catch block.
flagAfterRun(failed) == FALSE

ReentryGuardOmitted == FALSE

\* if (isGeneratingDub) return;
ReentryGuard == renderedGenerating

ExportInit ==
    /\ srtExports = <<>>
    /\ sourceDownloads = 0
    /\ objectUrls = 0
    /\ anchors = 0

DashboardInit ==
    /\ ExportInit
    /\ isGeneratingDub = FALSE
    /\ renderedGenerating = FALSE
    /\ dubProgress = 0
    /\ showExportMenu = FALSE
    /\ showMergeModal = FALSE
    /\ runs = [r \in 1..MaxRuns |-> IdleRun]
    /\ started = 0
    /\ alerts = 0
    /\ downloads = <<>>

\* handleDownloadDubbedAudio from its call up to its first await on a
\* pending promise; React commits the updates of the click handler before
\* the next event.
handleDownloadDubbedAudio ==
    /\ ~ReentryGuard
    /\ started < MaxRuns
    /\ started' = started + 1
    /\ \E audioContextCreated \in BOOLEAN :
          IF audioContextCreated /\ ~offlineCtxThrows(NewRun.offlineCtx.length)
          THEN LET run == loopFrom(NewRun, 1)
               IN  /\ runs' = [runs EXCEPT ![started + 1] = run]
                   /\ isGeneratingDub' = TRUE
                   /\ renderedGenerating' = TRUE
                   /\ dubProgress' = lastReported(run, 0)
                   /\ alerts' = alerts
          ELSE /\ runs' = [runs EXCEPT ![started + 1] =
                              [NewRun EXCEPT !.pc = "ended", !.ending = "alert",
                                             !.offlineCtx = NoContext]]
               /\ isGeneratingDub' = flagAfterRun(TRUE)
               /\ renderedGenerating' = flagAfterRun(TRUE)
               /\ dubProgress' = 0
               /\ alerts' = alerts + 1
    /\ UNCHANGED <<subtitles, showExportMenu, showMergeModal, downloads>>

DubUnchanged == UNCHANGED <<mediaVars, exportVars>>

\* "Download Audio Only (.wav)" of the export menu.
ClickMenuDub ==
    /\ showExportMenu
    /\ handleDownloadDubbedAudio
    /\ DubUnchanged

\* "2. Get Audio" of the merge-guide modal, disabled while generating.
ClickModalDub ==
    /\ showMergeModal
    /\ ~renderedGenerating
    /\ handleDownloadDubbedAudio
    /\ DubUnchanged

\* The speech-synthesis request of a line settles.
TTSSettles ==
    /\ \E r \in 1..MaxRuns :
          /\ runs[r].pc = "tts"
          /\ \E k \in runs[r].inflight, ok \in BOOLEAN :
                LET run == loopFrom(lineDone(runs[r], k, ok), k + 1)
                IN  /\ runs' = [runs EXCEPT ![r] = run]
                    /\ dubProgress' = lastReported(run, dubProgress)
    /\ UNCHANGED <<subtitles, isGeneratingDub, renderedGenerating, showExportMenu,
                   showMergeModal, started, alerts, downloads>>
    /\ DubUnchanged

\* offlineCtx.startRendering() settles; then the download or the alert, and
\* the finally block.
RenderSettles ==
    /\ \E r \in 1..MaxRuns :
          /\ runs[r].pc = "rendering"
          /\ \E ok \in BOOLEAN :
                /\ runs' = [runs EXCEPT ![r].pc = "ended",
                                        ![r].ending = IF ok THEN "download" ELSE "alert"]
                /\ downloads' = IF ok
                                THEN Append(downloads, audioBufferToWav(runs[r].sched))
                                ELSE downloads
                /\ alerts' = IF ok THEN alerts ELSE alerts + 1
                /\ objectUrls' = IF ok THEN createObjectURL(objectUrls) ELSE objectUrls
                /\ anchors' = IF ok THEN removeChild(appendChild(anchors)) ELSE anchors
                /\ isGeneratingDub' = flagAfterRun(~ok)
    /\ dubProgress' = 0
    /\ UNCHANGED <<subtitles, renderedGenerating, showExportMenu, showMergeModal, started>>
    /\ UNCHANGED <<mediaVars, srtExports, sourceDownloads>>

\* React commits a render for state updates made outside an event handler.
ReactRender ==
    /\ renderedGenerating # isGeneratingDub
    /\ renderedGenerating' = isGeneratingDub
    /\ UNCHANGED <<subtitles, isGeneratingDub, dubProgress, showExportMenu,
                   showMergeModal, runs, started, alerts, downloads>>
    /\ DubUnchanged

\* The Export button, disabled while generating.
ToggleExportMenu ==
    /\ ~renderedGenerating
    /\ showExportMenu' = ~showExportMenu
    /\ UNCHANGED <<subtitles, isGeneratingDub, renderedGenerating, dubProgress,
                   showMergeModal, runs, started, alerts, downloads>>
    /\ DubUnchanged

\* The "Merge Guide" entry of the export menu.
OpenMergeGuide ==
    /\ showExportMenu
    /\ showExportMenu' = FALSE
    /\ showMergeModal' = TRUE
    /\ UNCHANGED <<subtitles, isGeneratingDub, renderedGenerating, dubProgress,
                   runs, started, alerts, downloads>>
    /\ DubUnchanged

\* The close button of the modal.
CloseMergeModal ==
    /\ showMergeModal
    /\ showMergeModal' = FALSE
    /\ UNCHANGED <<subtitles, isGeneratingDub, renderedGenerating, dubProgress,
                   showExportMenu, runs, started, alerts, downloads>>
    /\ DubUnchanged

\* ------------------------------------------------------------------------
\* Dashboard: exportSRT and handleDownloadSource
\* ------------------------------------------------------------------------
\* The content of a subtitle file, as the sequence of its lines (each ended
\* by "\n").  A line is the number of a block, the timing of a block, a
\* text, or empty.
IndexLine(n) == [kind |-> "index", n |-> n, start |-> <<>>, end |-> <<>>, text |-> ""]
TimeLine(s, e) == [kind |-> "time", n |-> 0, start |-> s, end |-> e, text |-> ""]
TextLine(t) == [kind |-> "text", n |-> 0, start |-> <<>>, end |-> <<>>, text |-> t]
EmptyLine == [kind |-> "empty", n |-> 0, start |-> <<>>, end |-> <<>>, text |-> ""]

\* timeStr.includes(',')
includesComma(ts) == \E k \in 1..Len(ts) : ts[k] = Comma

normalizeTimeAlways(ts) == ts \o <<Comma, 0>>

\* sub.startTime.includes(',') ? sub.startTime : `${sub.startTime},000`
normalizeTime(ts) == IF includesComma(ts) THEN ts ELSE ts \o <<Comma, 0>>

Types == {"bilingual", "original", "vietnamese"}

textLinesTranslatedFirst(sub, type) ==
    IF type = "bilingual" THEN <<TextLine(sub.textVietnamese), TextLine(sub.textOriginal)>>
    ELSE IF type = "original" THEN <<TextLine(sub.textOriginal)>>
    ELSE <<TextLine(sub.textVietnamese)>>

textLinesOriginalFallsThrough(sub, type) ==
    IF type = "bilingual" THEN <<TextLine(sub.textOriginal), TextLine(sub.textVietnamese)>>
    ELSE <<TextLine(sub.textVietnamese)>>

\* The text lines of one block, by the type of the export.
textLines(sub, type) ==
    IF type = "bilingual" THEN <<TextLine(sub.textOriginal), TextLine(sub.textVietnamese)>>
    ELSE IF type = "original" THEN <<TextLine(sub.textOriginal)>>
    ELSE <<TextLine(sub.textVietnamese)>>

\* The callback of data.subtitles.forEach((sub, index) => ...): what one
\* subtitle adds to content.
srtBlock(sub, index, type) ==
    <<IndexLine(index + 1),
      TimeLine(normalizeTime(sub.startTime), normalizeTime(sub.endTime))>>
    \o textLines(sub, type) \o <<EmptyLine>>

RECURSIVE srtContentUpTo(_, _, _)
srtContentUpTo(subs, type, n) ==
    IF n = 0 THEN <<>>
    ELSE srtContentUpTo(subs, type, n - 1) \o srtBlock(subs[n], n - 1, type)

\* content after the forEach of exportSRT
srtContent(subs, type) == srtContentUpTo(subs, type, Len(subs))

\* Lines with a millisecond part in both timestamps, and in the start only.
Sub3 ==
    [id |-> 3, startTime |-> StampMs(0, 0, 5, 500), endTime |-> StampMs(0, 0, 7, 250),
     textOriginal |-> "en3", textVietnamese |-> "vi3"]
Sub4 ==
    [id |-> 4, startTime |-> StampMs(0, 0, 8, 0), endTime |-> Stamp(0, 0, 9),
     textOriginal |-> "en4", textVietnamese |-> "vi4"]

SrtSubtitleChoices == SubtitleChoices \cup {Sub3, Sub4}

SrtSubtitleLists == SeqsUpTo(SrtSubtitleChoices, MaxLines)

\* exportSRT(type): the file is built and offered as a download through a
\* temporary anchor and an object URL, and the export menu is closed.
exportSRT(type) ==
    /\ Len(srtExports) < MaxExports
    /\ srtExports' = Append(srtExports, [type |-> type, content |-> srtContent(subtitles, type)])
    /\ objectUrls' = createObjectURL(objectUrls)
    /\ anchors' = removeChild(appendChild(anchors))
    /\ showExportMenu' = FALSE
    /\ UNCHANGED <<subtitles, isGeneratingDub, renderedGenerating, dubProgress,
                   showMergeModal, runs, started, alerts, downloads, sourceDownloads>>
    /\ UNCHANGED mediaVars

\* An entry of the export menu: "Bilingual (.srt)", "Vietnamese Only (.srt)"
\* and, in the older Dashboard, the original-only entry.
ClickExportSRT ==
    /\ showExportMenu
    /\ \E type \in Types : exportSRT(type)

\* handleDownloadSource: the anchor points at videoUrl, which the render
\* created; the menu stays open.
handleDownloadSource ==
    /\ sourceDownloads < MaxExports
    /\ sourceDownloads' = sourceDownloads + 1
    /\ anchors' = removeChild(appendChild(anchors))
    /\ UNCHANGED <<srtExports, objectUrls>>
    /\ UNCHANGED <<dubVars, mediaVars>>

\* "Download Source Video" of the export menu.
ClickMenuSource ==
    /\ showExportMenu
    /\ handleDownloadSource

\* "1. Get Video" of the merge-guide modal.
ClickModalSource ==
    /\ showMergeModal
    /\ handleDownloadSource

\* ------------------------------------------------------------------------
\* Specifications
\* ------------------------------------------------------------------------

\* One invocation of processMediaWithGemini; no Dashboard is mounted.
Init ==
    /\ fileSize \in FileSizes
    /\ apiKey \in BOOLEAN
    /\ hasSignal \in BOOLEAN
    /\ hasCallback \in BOOLEAN
    /\ CallInit
    /\ subtitles = <<>>
    /\ DashboardInit

Next ==
    \/ Call
    \/ Abort
    \/ FileReadSettles
    \/ UploadSettles
    \/ StatusSettles
    \/ TimerFires
    \/ GenerateSettles
    \/ LateSettle

Spec == Init /\ [][Next]_vars

\* A Dashboard mounted with some subtitle list; no invocation is running.
InitDub ==
    /\ fileSize = 0
    /\ apiKey \in BOOLEAN
    /\ hasSignal = FALSE
    /\ hasCallback = FALSE
    /\ CallInit
    /\ subtitles \in SubtitleLists
    /\ DashboardInit

NextDub ==
    \/ ClickMenuDub
    \/ ClickModalDub
    \/ TTSSettles
    \/ RenderSettles
    \/ ReactRender
    \/ ToggleExportMenu
    \/ OpenMergeGuide
    \/ CloseMergeModal

SpecDub == InitDub /\ [][NextDub]_vars

\* The same, with what the browser guarantees: a pending request and a
\* pending rendering settle, and React commits a pending render.  The clicks
\* of the user are not fair.
FairSpecDub ==
    /\ SpecDub
    /\ WF_vars(TTSSettles)
    /\ WF_vars(RenderSettles)
    /\ WF_vars(ReactRender)

\* A Dashboard mounted with some subtitle list, whose timestamps may hold a
\* millisecond part; the subtitle and source exports.
InitExport ==
    /\ fileSize = 0
    /\ apiKey = TRUE
    /\ hasSignal = FALSE
    /\ hasCallback = FALSE
    /\ CallInit
    /\ subtitles \in SrtSubtitleLists
    /\ DashboardInit

NextExport ==
    \/ ClickExportSRT
    \/ ClickMenuSource
    \/ ClickModalSource
    \/ ToggleExportMenu
    \/ OpenMergeGuide
    \/ CloseMergeModal

SpecExport == InitExport /\ [][NextExport]_vars

\* ------------------------------------------------------------------------
\* Properties of processMediaWithGemini (under Spec)
\* ------------------------------------------------------------------------
NoRequestIssued ==
    /\ fileReads = 0
    /\ uploadRequests = 0
    /\ statusRequests = 0
    /\ generateRequests = 0
    /\ pending = {}

\* C1: when the signal has already fired at the call, the invocation rejects
\* with the cancellation error and never reads the file, uploads, polls or
\* issues the generation call.
C1_AbortedBeforeCall ==
    abortedAtCall =>
        /\ outcome = "rejected"
        /\ error = CancelError
        /\ result = <<>>
        /\ NoRequestIssued

C1_Witness == abortedAtCall /\ pc = "settled" /\ ~apiKey

InFlight == {"reading", "uploading", "polling", "waiting", "generating"}

\* C2: when the signal fires while an operation of the invocation is in
\* flight (file read, upload, status request, poll wait, generation call),
\* the invocation rejects with the cancellation error, with no other error,
\* and returns no ProcessedData.
C2_CancelInFlight ==
    abortPc \in InFlight =>
        /\ outcome = "rejected"
        /\ error = CancelError
        /\ result = <<>>

\* C3: when the signal fires during the poll loop (a status request or the
\* wait between polls), the loop ends before its retry bound, the wait timer
\* is cleared and the error is the cancellation error, never the timeout.
C3_CancelDuringPoll ==
    abortPc \in {"polling", "waiting"} =>
        /\ pc = "settled"
        /\ outcome = "rejected"
        /\ error = CancelError
        /\ error # TimeoutError
        /\ ~timer
        /\ i < maxAttempts
        /\ statusRequests = i + 1

C3_Witness ==
    /\ abortPc = "waiting"
    /\ i = maxAttempts - 1
    /\ processingPolls = maxAttempts
    /\ outcome = "rejected"

\* C4: when no poll reports ACTIVE or FAILED and the signal does not fire,
\* waitForFileActive ends with the timeout error after exactly maxAttempts
\* status requests, and no generation request is issued.
C4_TimeoutAfterMaxAttempts ==
    /\ statusRequests <= maxAttempts
    /\ (outcome = "rejected" /\ error = TimeoutError) =>
          /\ statusRequests = maxAttempts
          /\ processingPolls = maxAttempts
          /\ generateRequests = 0
    /\ (processingPolls = maxAttempts /\ ~timer /\ abortPc = "none") =>
          /\ outcome = "rejected"
          /\ error = TimeoutError
    /\ (processingPolls < maxAttempts /\ abortPc = "none" /\ pc \in {"polling", "waiting"}) =>
          outcome = "pending"

C4_Witness ==
    /\ outcome = "rejected"
    /\ error = TimeoutError
    /\ statusRequests = maxAttempts
    /\ ~aborted

\* C5: an invocation ends by returning a ProcessedData whose three sequences
\* were all built from the one generation response, or by rejecting; it
\* never returns data when one of the three arrays was missing, and a
\* rejected or pending invocation has returned nothing.
C5_AllOrNothing ==
    /\ pc = "settled" => outcome \in {"resolved", "rejected"}
    /\ outcome # "resolved" => result = <<>>
    /\ outcome = "resolved" =>
          /\ Len(result) = 1
          /\ generateRequests = 1
          /\ response.subs.present /\ response.nts.present /\ response.cards.present
          /\ Len(result[1].subtitles) = Len(response.subs.items)
          /\ Len(result[1].notes) = Len(response.nts.items)
          /\ Len(result[1].flashcards) = Len(response.cards.items)

C5_Witness ==
    /\ outcome = "resolved"
    /\ Len(result[1].subtitles) = 2
    /\ Len(result[1].notes) = 1
    /\ Len(result[1].flashcards) = 2

CategoryMessages ==
    {CancelError, MissingKeyError, UploadFailedError, ProcessingFailedError,
     TimeoutError, QuotaError, OverloadedError, SafetyError, ContextError,
     InvalidKeyError}

Rejected == pc = "settled" /\ outcome = "rejected"

\* C6 as stated: every failure surfaces as one category; the cancellation
\* error passes unchanged, and otherwise each marker by itself decides the
\* surfaced message ('429' quota, '503' overloaded, 'SAFETY' safety, '400'
\* with 'context' context exceeded, '403' invalid key), any other error
\* being rethrown unchanged.
C6_EachMarkerDecides ==
    Rejected =>
        /\ caught.text = CancelText => error = caught
        /\ caught.text # CancelText =>
              /\ includes(caught, "429") => error = QuotaError
              /\ includes(caught, "503") => error = OverloadedError
              /\ includes(caught, "SAFETY") => error = SafetyError
              /\ (includes(caught, "400") /\ includes(caught, "context")) =>
                    error = ContextError
              /\ includes(caught, "403") => error = InvalidKeyError
              /\ (\A m \in Markers : ~includes(caught, m)) => error = caught

\* C6 amended: the markers are tested in the order '429', '503', 'SAFETY',
\* '400' with 'context', '403', and the first test that matches decides the
\* surfaced message; the cancellation error passes unchanged before any
\* test, an error matching no test is rethrown unchanged, and the messages
\* of the categories are pairwise distinct.
C6_FirstMarkerDecides ==
    /\ Cardinality({m.text : m \in CategoryMessages}) = 10
    /\ Rejected =>
        LET t429 == includes(caught, "429")
            t503 == includes(caught, "503")
            tSafety == includes(caught, "SAFETY")
            tContext == includes(caught, "400") /\ includes(caught, "context")
            t403 == includes(caught, "403")
        IN  /\ caught.text = CancelText => error = caught
            /\ caught.text # CancelText =>
                  /\ t429 => error = QuotaError
                  /\ (~t429 /\ t503) => error = OverloadedError
                  /\ (~t429 /\ ~t503 /\ tSafety) => error = SafetyError
                  /\ (~t429 /\ ~t503 /\ ~tSafety /\ tContext) => error = ContextError
                  /\ (~t429 /\ ~t503 /\ ~tSafety /\ ~tContext /\ t403) =>
                        error = InvalidKeyError
                  /\ (~t429 /\ ~t503 /\ ~tSafety /\ ~tContext /\ ~t403) =>
                        error = caught

C6_Witness ==
    /\ Rejected
    /\ includes(caught, "503")
    /\ includes(caught, "429")
    /\ error = QuotaError

\* ------------------------------------------------------------------------
\* Properties of the dub export (under SpecDub)
\* ------------------------------------------------------------------------
RunIds == 1..MaxRuns

Active(r) == runs[r].pc \in {"tts", "rendering"}

\* C7: with the credential absent every AI call fails before any request is
\* issued, and the failure is fatal and user-visible for the action that
\* made the call: a dub export whose getTTSAudio call failed for the missing
\* credential has ended with the alert and goes on to no rendering.
C7_MissingKeyIsFatal ==
    ~apiKey =>
        /\ outcome = "rejected" => (error = MissingKeyError /\ NoRequestIssued)
        /\ \A r \in RunIds :
              /\ runs[r].issued = <<>>
              /\ runs[r].processedCount >= 1 =>
                    /\ ~runs[r].renderStarted
                    /\ runs[r].pc = "ended"
                    /\ runs[r].ending = "alert"

C9_Sequential ==
    \A r \in RunIds :
        LET run == runs[r]
        IN  /\ Cardinality(run.inflight) <= 1
            /\ \A j \in 1..Len(run.issued) :
                  /\ run.issued[j] = j
                  /\ (j < Len(run.issued)) => (j \in run.handled /\ j \notin run.inflight)

C9_Witness ==
    \E r \in RunIds :
        /\ runs[r].issued = <<1, 2>>
        /\ runs[r].inflight = {2}
        /\ runs[r].handled = {1}

\* C10: whatever the user clicks (the entry of the export menu, the button
\* of the merge-guide modal), at most one dub export run is active at a time.
C10_NonReentrant == Cardinality({r \in RunIds : Active(r)}) <= 1

C10_Witness ==
    /\ Active(2)
    /\ runs[1].pc = "ended"
    /\ showExportMenu
    /\ renderedGenerating

\* ------------------------------------------------------------------------
\* Further properties of processMediaWithGemini (under Spec)
\* ------------------------------------------------------------------------
Resolved == pc = "settled" /\ outcome = "resolved"

\* Every required field of the schema is there: the three arrays and, in
\* each item, each of its fields (the identifier and the timestamps of a
\* line and the timestamp of a note are there in every response modelled).
AllRequiredPresent(raw) ==
    /\ raw.subs.present /\ raw.nts.present /\ raw.cards.present
    /\ \A k \in 1..Len(raw.subs.items) :
          \A f \in {"en", "vi"} : raw.subs.items[k][f] # undefinedField
    /\ \A k \in 1..Len(raw.nts.items) :
          \A f \in {"ti", "co"} : raw.nts.items[k][f] # undefinedField
    /\ \A k \in 1..Len(raw.cards.items) :
          \A f \in {"id", "t", "d", "c"} : raw.cards.items[k][f] # undefinedField

\* data holds the items of raw in the same number and order, each field
\* under its renamed key.
CarriedOver(data, raw) ==
    /\ Len(data.subtitles) = Len(raw.subs.items)
    /\ Len(data.notes) = Len(raw.nts.items)
    /\ Len(data.flashcards) = Len(raw.cards.items)
    /\ \A k \in 1..Len(raw.subs.items) :
          LET s == raw.subs.items[k]
              o == data.subtitles[k]
          IN  /\ o.id = s.i /\ o.startTime = s.s /\ o.endTime = s.e
              /\ o.textOriginal = s.en /\ o.textVietnamese = s.vi
    /\ \A k \in 1..Len(raw.nts.items) :
          LET n == raw.nts.items[k]
              o == data.notes[k]
          IN  o.timestamp = n.ts /\ o.title = n.ti /\ o.content = n.co
    /\ \A k \in 1..Len(raw.cards.items) :
          LET c == raw.cards.items[k]
              o == data.flashcards[k]
          IN  o.id = c.id /\ o.term = c.t /\ o.definition = c.d /\ o.context = c.c

\* The result does not depend on the value Math.random() gave.
Deterministic(data, raw) == \A rnd \in RandomIds : expand(raw, rnd) = data

\* C11 as stated: for a response in which every required field is present,
\* the ProcessedData returned is determined by the response and holds every
\* item in the same number and order with each field under its renamed key.
C11_ExpansionLossless ==
    (Resolved /\ AllRequiredPresent(response)) =>
        /\ CarriedOver(result[1], response)
        /\ Deterministic(result[1], response)

NonEmptyIds(raw) == \A k \in 1..Len(raw.cards.items) : raw.cards.items[k].id # ""

\* C11 amended: for a response in which every required field is present and
\* every flashcard id is a non-empty string, the ProcessedData returned is
\* determined by the response and holds every item in the same number and
\* order with each field under its renamed key.
C11_ExpansionLosslessNonEmptyIds ==
    (Resolved /\ AllRequiredPresent(response) /\ NonEmptyIds(response)) =>
        /\ CarriedOver(result[1], response)
        /\ Deterministic(result[1], response)

C11_Witness ==
    /\ Resolved
    /\ response.subs.items = <<RawSub1, RawSub2>>
    /\ response.nts.items = <<RawNote1>>
    /\ response.cards.items = <<RawCard1, RawCard2>>
    /\ result[1].flashcards[2].id = "c2"

\* C15: the path is chosen by the file size alone.  A file smaller than
\* 20 MiB is read and sent inline, with no upload and no status request; a
\* file of 20 MiB or more is uploaded and polled, never read and never sent
\* inline.
C15_PathBySizeAlone ==
    /\ INLINE_SIZE_LIMIT = 20971520
    /\ (pc # "idle" /\ apiKey /\ ~abortedAtCall) =>
          /\ fileReads = (IF fileSize < INLINE_SIZE_LIMIT THEN 1 ELSE 0)
          /\ uploadRequests = (IF fileSize < INLINE_SIZE_LIMIT THEN 0 ELSE 1)
    /\ fileSize < INLINE_SIZE_LIMIT =>
          /\ uploadRequests = 0
          /\ statusRequests = 0
          /\ generateRequests > 0 => mediaPart = "inlineData"
    /\ fileSize >= INLINE_SIZE_LIMIT =>
          /\ fileReads = 0
          /\ mediaPart # "inlineData"
          /\ generateRequests > 0 =>
                (uploadRequests = 1 /\ statusRequests >= 1 /\ mediaPart = "fileData")

C15_Witness ==
    /\ fileSize = INLINE_SIZE_LIMIT
    /\ Resolved
    /\ mediaPart = "fileData"
    /\ processingPolls = 1

\* C16: on the upload path the generation request is issued only after a
\* status request reported ACTIVE.  A report of FAILED ends the call with
\* 'File processing failed on Gemini server.', an upload result without URI
\* or name ends it with 'Upload failed.', and in these cases, on timeout and
\* on cancellation before ACTIVE no generation request is sent.
C16_GenerateOnlyAfterActive ==
    /\ (uploadRequests > 0 /\ generateRequests > 0) =>
          (uploadResult = "named" /\ fileState = "ACTIVE")
    /\ fileState = "FAILED" =>
          (Rejected /\ error = ProcessingFailedError /\ generateRequests = 0)
    /\ uploadResult = "unnamed" =>
          /\ Rejected /\ error = UploadFailedError
          /\ statusRequests = 0 /\ generateRequests = 0
    /\ (Rejected /\ error = TimeoutError) => generateRequests = 0
    /\ abortPc \in {"uploading", "polling", "waiting"} =>
          (Rejected /\ generateRequests = 0)

C16_Witness ==
    /\ fileState = "FAILED"
    /\ processingPolls = 2
    /\ Rejected
    /\ error = ProcessingFailedError

Requests == <<fileReads, uploadRequests, statusRequests, generateRequests>>

\* C17: an invocation issues at most one upload request and at most one
\* generation request; the step in which it rejects issues no request, and
\* once it has rejected it issues none any more, whatever the failure was.
C17_NoRetry ==
    [][/\ uploadRequests' <= 1
       /\ generateRequests' <= 1
       /\ (outcome' = "rejected") => (Requests' = Requests)]_vars

C17_Witness ==
    /\ Rejected
    /\ includes(caught, "503")
    /\ error = OverloadedError
    /\ uploadRequests = 1
    /\ generateRequests = 1
    /\ pending = {}

\* ------------------------------------------------------------------------
\* Further properties of the dub export (under SpecDub)
\* ------------------------------------------------------------------------
HasContext(r) == runs[r].offlineCtx # NoContext

\* C18: the offline context of a dub export is mono at 24000 Hz and lasts
\* the end time of the last subtitle of the list plus 10 seconds (60 seconds
\* for an empty list), and every subtitle's start offset lies inside that
\* duration.
C18_ContextCoversStarts ==
    \A r \in RunIds :
        HasContext(r) =>
            LET ctx == runs[r].offlineCtx
                seconds == IF N = 0 THEN 60
                           ELSE parseTime(subtitles[N].endTime) + 10
            IN  /\ ctx.numberOfChannels = 1
                /\ ctx.sampleRate = 24000
                /\ ctx.length = seconds * 24000
                /\ \A k \in 1..N :
                      parseTime(subtitles[k].startTime) * ctx.sampleRate < ctx.length

\* The first half of C18 alone: channels, rate and length of the context.
ContextSizedByLastLine ==
    \A r \in RunIds :
        HasContext(r) =>
            LET ctx == runs[r].offlineCtx
                seconds == IF N = 0 THEN 60
                           ELSE parseTime(subtitles[N].endTime) + 10
            IN  /\ ctx.numberOfChannels = 1
                /\ ctx.sampleRate = 24000
                /\ ctx.length = seconds * 24000

\* C19: in a dub export over N lines one progress value is reported after
\* each line, failed or not: the k-th value is round(k / N * 100); the
\* values never decrease, and none is reported for the rendering step.
C19_ProgressPerLine ==
    \A r \in RunIds :
        LET run == runs[r]
            count == Len(run.reported)
        IN  /\ count = Cardinality(run.handled)
            /\ count = run.processedCount
            /\ count <= N
            /\ run.renderStarted => count = N
            /\ \A k \in 1..count :
                  /\ 200 * k - N < 2 * N * run.reported[k]
                  /\ 2 * N * run.reported[k] <= 200 * k + N
            /\ \A k \in 1..(count - 1) : run.reported[k] <= run.reported[k + 1]
            /\ (Active(r) /\ count >= 1) => dubProgress = run.reported[count]

C19_Witness ==
    \E r \in RunIds :
        /\ N = 2
        /\ runs[r].pc = "rendering"
        /\ runs[r].succeeded = {2}
        /\ runs[r].reported = <<50, 100>>
        /\ dubProgress = 100

\* ------------------------------------------------------------------------
\* Properties of the subtitle and source exports (under SpecExport)
\* ------------------------------------------------------------------------
RECURSIVE blocks(_)
\* The blocks of a subtitle file: the runs of lines that empty lines end.
blocks(content) ==
    IF content = <<>> THEN <<>>
    ELSE LET n == Len(content)
             k == CHOOSE j \in 1..(n + 1) :
                      /\ j = n + 1 \/ content[j] = EmptyLine
                      /\ \A h \in 1..(j - 1) : content[h] # EmptyLine
         IN  <<SubSeq(content, 1, k - 1)>> \o blocks(SubSeq(content, k + 1, n))

IsText(line) == line.kind = "text"

\* The texts of a block, in order.
texts(block) ==
    LET t == SelectSeq(block, IsText)
    IN  [k \in 1..Len(t) |-> t[k].text]

Exported(type) == {x \in 1..Len(srtExports) : srtExports[x].type = type}

\* C12: a file exported in 'original' mode has one block per subtitle, in
\* the order of the list, the text of a block is the original text of its
\* subtitle and nothing else, and no line of the file is the translated
\* text of a subtitle.
C12_OriginalOnly ==
    \A x \in Exported("original") :
        LET content == srtExports[x].content
            b == blocks(content)
        IN  /\ Len(b) = N
            /\ \A k \in 1..N :
                  /\ b[k][1] = IndexLine(k)
                  /\ texts(b[k]) = <<subtitles[k].textOriginal>>
            /\ \A j \in 1..Len(content), k \in 1..N :
                  content[j].text # subtitles[k].textVietnamese

C12_Witness ==
    \E x \in Exported("original") :
        /\ N = 2
        /\ subtitles[1] # subtitles[2]
        /\ Len(blocks(srtExports[x].content)) = 2

\* C13: a file exported in 'bilingual' mode has, for each subtitle, a block
\* with exactly two text lines, the original text and then the translated
\* text; in 'vietnamese' mode each block holds the translated text only.
C13_BilingualOrder ==
    /\ \A x \in Exported("bilingual") :
          LET b == blocks(srtExports[x].content)
          IN  /\ Len(b) = N
              /\ \A k \in 1..N :
                    /\ b[k][1] = IndexLine(k)
                    /\ texts(b[k]) =
                          <<subtitles[k].textOriginal, subtitles[k].textVietnamese>>
    /\ \A x \in Exported("vietnamese") :
          LET b == blocks(srtExports[x].content)
          IN  /\ Len(b) = N
              /\ \A k \in 1..N :
                    /\ b[k][1] = IndexLine(k)
                    /\ texts(b[k]) = <<subtitles[k].textVietnamese>>

C13_Witness ==
    /\ N = 2
    /\ subtitles[1] # subtitles[2]
    /\ Exported("bilingual") # {}
    /\ Exported("vietnamese") # {}

HasComma(ts) == \E k \in 1..Len(ts) : ts[k] = Comma

\* What a timestamp is written as, according to C14.
Written(ts) == IF HasComma(ts) THEN ts ELSE ts \o <<Comma, 0>>

\* C14: in every exported file the start and the end of a block are the
\* subtitle's timestamps, with ',000' appended when the timestamp holds no
\* comma and unmodified when it holds one; normalizing a written timestamp
\* again changes nothing.
C14_TimestampNormalized ==
    \A x \in 1..Len(srtExports) :
        LET b == blocks(srtExports[x].content)
        IN  /\ Len(b) = N
            /\ \A k \in 1..N :
                  LET line == b[k][2]
                  IN  /\ line.kind = "time"
                      /\ line.start = Written(subtitles[k].startTime)
                      /\ line.end = Written(subtitles[k].endTime)
                      /\ normalizeTime(line.start) = line.start
                      /\ normalizeTime(line.end) = line.end

C14_Witness ==
    /\ subtitles = <<Sub4, Sub1>>
    /\ Len(srtExports) = 1
    /\ blocks(srtExports[1].content)[1][2] =
          TimeLine(StampMs(0, 0, 8, 0), StampMs(0, 0, 9, 0))
    /\ blocks(srtExports[1].content)[2][2] =
          TimeLine(StampMs(0, 0, 1, 0), StampMs(0, 0, 4, 0))

\* C20: after any sequence of export actions no anchor element and no
\* object URL that an export action created is still held.
C20_ResourcesReleased ==
    /\ anchors = 0
    /\ objectUrls = 0

\* C21: once the invocation has rejected with the cancellation error it
\* issues no further request (file read, upload, status request, generation
\* call) and calls the status callback no more, also when an operation that
\* was in flight settles afterwards.
C21_NothingAfterCancel ==
    [][(outcome = "rejected" /\ error = CancelError) =>
            (Requests' = Requests /\ statusLog' = statusLog)]_vars

C21_Witness ==
    /\ Rejected
    /\ error = CancelError
    /\ abortPc = "uploading"
    /\ uploadRequests = 1
    /\ pending = {}
    /\ statusLog = <<10>>

IsNonDecreasing(log) == \A k \in 1..(Len(log) - 1) : log[k] <= log[k + 1]

\* C22: the percentages passed to the status callback never decrease: 30
\* then 80 on the inline path; on the upload path 10, 40, then for the
\* poll attempt i = 0, 1, ... that reported neither ACTIVE nor FAILED the
\* value 40 + floor(i / 120 * 35), which lies in 40..74, then 80.  The value
\* 80 is reported only once the media is ready, with the generation request.
C22_StatusPercentages ==
    /\ ~hasCallback => statusLog = <<>>
    /\ IsNonDecreasing(statusLog)
    /\ fileSize < INLINE_SIZE_LIMIT =>
          \/ statusLog = <<>>
          \/ statusLog = <<30>> /\ generateRequests = 0
          \/ statusLog = <<30, 80>> /\ reader = "done" /\ generateRequests = 1
    /\ (fileSize >= INLINE_SIZE_LIMIT /\ statusLog # <<>>) =>
          LET n == Len(statusLog)
              ready == fileState = "ACTIVE"
              polls == IF ready THEN n - 3 ELSE n - 2
          IN  /\ statusLog[1] = 10
              /\ n >= 2 => (statusLog[2] = 40 /\ uploadResult = "named")
              /\ n >= 2 => polls = processingPolls
              /\ \A k \in 3..(2 + polls) :
                    /\ 120 * (statusLog[k] - 40) <= 35 * (k - 3)
                    /\ 35 * (k - 3) < 120 * (statusLog[k] - 39)
                    /\ statusLog[k] \in 40..74
              /\ ready => (statusLog[n] = 80 /\ generateRequests = 1)
              /\ ~ready => generateRequests = 0

C22_Witness ==
    /\ Resolved
    /\ hasCallback
    /\ processingPolls = 25
    /\ Len(statusLog) = 28
    /\ statusLog[27] = 47
    /\ statusLog[28] = 80

\* ------------------------------------------------------------------------
\* Liveness of the dub export (under FairSpecDub)
\* ------------------------------------------------------------------------
SomeRunActive == \E r \in RunIds : Active(r)

\* The flag is set exactly while a run is under way, and the progress is 0
\* whenever none is.
FlagFollowsRun ==
    /\ isGeneratingDub <=> SomeRunActive
    /\ ~SomeRunActive => dubProgress = 0

\* The state in which a later export can be started.
ReadyForExport ==
    /\ ~SomeRunActive
    /\ ~isGeneratingDub
    /\ dubProgress = 0
    /\ ~ReentryGuard

\* C23: every dub export run that starts eventually ends with the flag
\* cleared and the progress back at 0, however it ends; the flag is set
\* only while a run is under way, and after the run the guard of the handler
\* eventually lets a later export start.
C23_FlagEventuallyCleared ==
    /\ []FlagFollowsRun
    /\ (SomeRunActive \/ isGeneratingDub \/ ReentryGuard) ~> ReadyForExport

C23_Witness ==
    /\ runs[1].pc = "ended"
    /\ runs[1].ending = "alert"
    /\ runs[1].renderStarted
    /\ runs[1].succeeded = {}
    /\ N = 2
    /\ Active(2)

====
